---- MODULE Spec2Model ----
(***************************************************************************)
(* Session lifecycle and persistence-commit protocol of the better-session *)
(* plugin (src/src/plugin.ts) over the in-memory store adapter             *)
(* (src/unnamed/part_001).  Requests are processed one after another; the  *)
(* client may send any cookie it likes.  A request is short against the    *)
(* ttl: the clock moves between requests and stands still within one.      *)
(* Further specifications cover handlers that fail, the adapters called    *)
(* directly, the file adapter's queue, and two requests that overlap.      *)
(***************************************************************************)
EXTENDS Integers, Sequences, FiniteSets, TLC

\* ---------------------------------------------------------------- bounds
MaxIds == 2      \* how many ids generateId hands out in a behaviour
MaxTicks == 2    \* how many times the clock advances between requests
MaxOps == 2      \* handler operations per behaviour, a failure included
MaxVal == 1      \* session values range over 0..MaxVal
MaxCalls == 3    \* file adapter: operations issued without awaiting
MaxRecords == 2  \* ids used when an adapter is called directly

\* -------------------------------------------------------------- constants
TTL == 1000      \* options.ttl, milliseconds (the tests use 60_000)
NullId == 0      \* null / undefined id
EmptyId == 0 - 1 \* the empty string as a cookie value
ForgedId == 0 - 2 \* a client-supplied id the server never issued
Tick == 500      \* milliseconds per clock advance

\* time that can pass between one response and the next request
Elapsed == {0, Tick}

Keys == {"visits"}
Vals == 0 .. MaxVal
IssuedIds == 1 .. MaxIds
\* what a client can send: no cookie, an empty one, an id of its own making, or
\* an id the server issued earlier (generateId never returns an id seen before)
CookieInputs(issued) == {NullId, EmptyId, ForgedId} \cup (1 .. issued)

\* JSON objects over Keys: functions whose domain is a subset of Keys
DataSpace == UNION {[D -> Vals] : D \in SUBSET Keys}

\* options.initialData(), as configured by the tests
InitialData == [k \in Keys |-> 0]

\* JavaScript truthiness of an id (string | null | undefined)
Truthy(id) == id \notin {NullId, EmptyId}

Max(a, b) == IF a >= b THEN a ELSE b

\* the only element of a one-element set
The(S) == CHOOSE x \in S : TRUE

VARIABLES
  rolling,          \* options.rolling
  createOnRequest,  \* options.createOnRequest
  now,              \* Date.now() during the current request
  sessions,         \* the memory adapter's Map: id -> {data, expiresAt}
  nextId,           \* number of ids generateId has returned so far
  phase,            \* "idle" | "handler" | "responded" | "failed"
  incomingId,       \* resolve: incomingCookies[cookie.name]
  stored,           \* resolve: result of adapter.get, {} for null
  state,            \* resolve: the request's state object
  headers,          \* set.headers['set-cookie'], in emission order
  calls,            \* adapter calls made by the current request, in order
  opLog,            \* kinds of handler operations invoked in the current request
  opsDone,          \* number of handler operations invoked so far
  destroyedIds,     \* ids the handler destroyed while the request held them
  adapter,          \* which built-in adapter is under test
  storage,          \* what that adapter keeps its records in
  last,             \* the last get made directly on the adapter, and its outcome
  written,          \* id -> the record of the last set, while nothing replaced it
  opQueue,          \* file adapter: the operations enqueued, oldest first
  other,            \* the request suspended at an await while another one runs
  heap,             \* the objects session data lives in, when identity matters
  pending           \* results of update() calls whose updater has not resolved

\* the variables of the adapters when they are driven directly
storeVars == <<adapter, storage, last, written, opQueue>>

\* the variables of the plugin and its requests
pluginVars == <<rolling, createOnRequest, sessions, nextId, phase, incomingId,
                stored, state, headers, calls, opLog, opsDone, destroyedIds,
                other, heap, pending>>

vars == <<rolling, createOnRequest, now, sessions, nextId, phase, incomingId,
          stored, state, headers, calls, opLog, opsDone, destroyedIds,
          adapter, storage, last, written, opQueue, other, heap, pending>>

\* ------------------------------------------------------- memory adapter
\* mutation: a record is still served at the instant it expires
MemGetExclusive(s, id, t) ==
  IF id \notin DOMAIN s THEN {}
  ELSE IF s[id].expiresAt < t THEN {}
  ELSE {s[id]}

MemGet(s, id, t) ==
  IF id \notin DOMAIN s THEN {}
  ELSE IF s[id].expiresAt <= t THEN {}
  ELSE {s[id]}

MemDelete(s, id) == [x \in (DOMAIN s) \ {id} |-> s[x]]

\* the store after get: an expired record is reclaimed
MemGetStore(s, id, t) ==
  IF id \in DOMAIN s /\ s[id].expiresAt <= t THEN MemDelete(s, id) ELSE s

\* mutation: set merges the new data into the data already stored
MemSetMerges(s, id, rec) ==
  [x \in (DOMAIN s) \cup {id} |->
     IF x # id THEN s[x]
     ELSE IF id \notin DOMAIN s THEN rec
     ELSE [data |-> [k \in (DOMAIN s[id].data) \cup (DOMAIN rec.data) |->
                       IF k \in DOMAIN rec.data THEN rec.data[k]
                       ELSE s[id].data[k]],
           expiresAt |-> rec.expiresAt]]

MemSet(s, id, rec) ==
  [x \in (DOMAIN s) \cup {id} |-> IF x = id THEN rec ELSE s[x]]

\* ----------------------------------------------------------- cookie codec
\* Ids are URI-unreserved tokens (crypto.randomUUID), which encodeURIComponent
\* leaves unchanged; the value field is the id, or EmptyId for ''.
\* mutation: Max-Age is not clamped at zero
withCookieAttributesNoClamp(value, expiresAt, t) ==
  [value |-> value,
   maxAge |-> (expiresAt - t) \div 1000,
   expires |-> expiresAt]

withCookieAttributes(value, expiresAt, t) ==
  [value |-> value,
   maxAge |-> Max(0, (expiresAt - t) \div 1000),
   expires |-> expiresAt]

serializeSessionCookie(value, expiresAt, t) ==
  withCookieAttributes(value, expiresAt, t)

serializeExpiredCookie(t) == withCookieAttributes(EmptyId, 0, t)

\* mutation: a new Set-Cookie header goes in front of the ones already set
appendSetCookieInFront(hs, cookieValue) == <<cookieValue>> \o hs

appendSetCookie(hs, cookieValue) == Append(hs, cookieValue)

IsLive(c) == c.value # EmptyId
IsClearing(c) == c.value = EmptyId /\ c.maxAge = 0

\* ------------------------------------------------------------ the request
\* one adapter call: which, on what id, from where, with or returning what, when
Call(op, id, by, rec, t) ==
  [op |-> op, id |-> id, by |-> by, rec |-> rec, at |-> t]

\* the part of the world one handler operation can change
World == [state |-> state, sessions |-> sessions, headers |-> headers,
          calls |-> calls, nextId |-> nextId]

generateId(w) == w.nextId + 1

\* mutation: an id is generated whether the session has one or not
ensureIdAlways(w) ==
  [w EXCEPT !.state.id = generateId(w), !.state.isNew = TRUE,
            !.nextId = generateId(w)]

\* mutation: a session without id takes the id of the incoming cookie
ensureIdAdoptsIncoming(w) ==
  IF ~Truthy(w.state.id)
  THEN IF Truthy(incomingId)
       THEN [w EXCEPT !.state.id = incomingId, !.state.isNew = TRUE]
       ELSE [w EXCEPT !.state.id = generateId(w), !.state.isNew = TRUE,
                      !.nextId = generateId(w)]
  ELSE w

ensureId(w) ==
  IF ~Truthy(w.state.id)
  THEN [w EXCEPT !.state.id = generateId(w), !.state.isNew = TRUE,
                 !.nextId = generateId(w)]
  ELSE w

\* mutation: a change after a commit does not reopen the commit
markDirtyKeepsCommitted(s) == [s EXCEPT !.revision = @ + 1]

\* mutation: a change reopens the commit without raising the revision
markDirtyKeepsRevision(s) == [s EXCEPT !.committed = FALSE]

markDirty(s) == [s EXCEPT !.revision = @ + 1, !.committed = FALSE]

\* mutation: every new session is written, lazy or not
shouldWriteAnyNew(mode, s) ==
  LET dirty == s.savedRevision # s.revision
  IN IF s.isNew THEN TRUE
     ELSE dirty \/ (rolling /\ Truthy(incomingId))

\* mutation: a new session is written only when dirty or saved by hand
shouldWriteNeverEager(mode, s) ==
  LET dirty == s.savedRevision # s.revision
  IN IF s.isNew THEN dirty \/ mode = "manual"
     ELSE dirty \/ (rolling /\ Truthy(incomingId))

\* mutation: the rolling option is ignored, a loaded session is always rewritten
shouldWriteAlwaysRolling(mode, s) ==
  LET dirty == s.savedRevision # s.revision
  IN IF s.isNew
     THEN createOnRequest \/ Truthy(s.id) \/ dirty \/ mode = "manual"
     ELSE dirty \/ Truthy(incomingId)

\* mutation: a save by hand counts for nothing on a new session
shouldWriteIgnoresManual(mode, s) ==
  LET dirty == s.savedRevision # s.revision
  IN IF s.isNew
     THEN createOnRequest \/ Truthy(s.id) \/ dirty
     ELSE dirty \/ (rolling /\ Truthy(incomingId))

\* mutation: unsaved changes do not make the commit write a new session
shouldWriteNewIgnoresDirty(mode, s) ==
  LET dirty == s.savedRevision # s.revision
  IN IF s.isNew
     THEN createOnRequest \/ Truthy(s.id) \/ mode = "manual"
     ELSE dirty \/ (rolling /\ Truthy(incomingId))

\* mutation: unsaved changes do not make the commit write a loaded session
shouldWriteIgnoresDirty(mode, s) ==
  LET dirty == s.savedRevision # s.revision
  IN IF s.isNew
     THEN createOnRequest \/ Truthy(s.id) \/ dirty \/ mode = "manual"
     ELSE rolling /\ Truthy(incomingId)

shouldWrite(mode, s) ==
  LET dirty == s.savedRevision # s.revision
  IN IF s.isNew
     THEN createOnRequest \/ Truthy(s.id) \/ dirty \/ mode = "manual"
     ELSE dirty \/ (rolling /\ Truthy(incomingId))

\* mutation: a destroyed session clears the cookie but keeps the record
persistDestroyedKeepsRecord(w, t) ==
  LET w2 == IF Truthy(incomingId) \/ Truthy(w.state.id)
            THEN [w EXCEPT !.headers = appendSetCookie(@, serializeExpiredCookie(t))]
            ELSE w
  IN [w2 EXCEPT !.state.savedRevision = w.state.revision,
                !.state.committed = TRUE]

\* mutation: the cookie is cleared only when the session has an id
persistDestroyedCookieNeedsId(w, t) ==
  LET w1 == IF Truthy(w.state.id)
            THEN [w EXCEPT !.sessions = MemDelete(@, w.state.id),
                           !.calls = Append(@, Call("delete", w.state.id, "persist", {}, t)),
                           !.headers = appendSetCookie(@, serializeExpiredCookie(t))]
            ELSE w
  IN [w1 EXCEPT !.state.savedRevision = w.state.revision,
                !.state.committed = TRUE]

persistDestroyed(w, t) ==
  LET w1 == IF Truthy(w.state.id)
            THEN [w EXCEPT !.sessions = MemDelete(@, w.state.id),
                           !.calls = Append(@, Call("delete", w.state.id, "persist", {}, t))]
            ELSE w
      w2 == IF Truthy(incomingId) \/ Truthy(w.state.id)
            THEN [w1 EXCEPT !.headers = appendSetCookie(@, serializeExpiredCookie(t))]
            ELSE w1
  IN [w2 EXCEPT !.state.savedRevision = w.state.revision,
                !.state.committed = TRUE]

\* mutation: a write keeps the expiry the session was loaded with
persistWriteKeepsExpiry(w, t) ==
  LET w1 == ensureId(w)
      id == w1.state.id
      expiresAt == w1.state.expiresAt
      toStore == [data |-> w1.state.data, expiresAt |-> expiresAt]
  IN [w1 EXCEPT !.sessions = MemSet(@, id, toStore),
                !.calls = Append(@, Call("set", id, "persist", {toStore}, t)),
                !.headers = appendSetCookie(@, serializeSessionCookie(id, expiresAt, t)),
                !.state.isNew = FALSE,
                !.state.savedRevision = w1.state.revision,
                !.state.committed = TRUE]

\* mutation: a written session is still taken for new
persistWriteStaysNew(w, t) ==
  LET w1 == ensureId(w)
      id == w1.state.id
      expiresAt == t + TTL
      toStore == [data |-> w1.state.data, expiresAt |-> expiresAt]
  IN [w1 EXCEPT !.state.expiresAt = expiresAt,
                !.sessions = MemSet(@, id, toStore),
                !.calls = Append(@, Call("set", id, "persist", {toStore}, t)),
                !.headers = appendSetCookie(@, serializeSessionCookie(id, expiresAt, t)),
                !.state.savedRevision = w1.state.revision,
                !.state.committed = TRUE]

persistWrite(w, t) ==
  LET w1 == ensureId(w)
      id == w1.state.id
      expiresAt == t + TTL
      toStore == [data |-> w1.state.data, expiresAt |-> expiresAt]
  IN [w1 EXCEPT !.state.expiresAt = expiresAt,
                !.sessions = MemSet(@, id, toStore),
                !.calls = Append(@, Call("set", id, "persist", {toStore}, t)),
                !.headers = appendSetCookie(@, serializeSessionCookie(id, expiresAt, t)),
                !.state.isNew = FALSE,
                !.state.savedRevision = w1.state.revision,
                !.state.committed = TRUE]

\* mutation: the committed flag does not stop a second commit
persistIgnoresCommitted(mode, w, t) ==
  IF w.state.destroyed THEN persistDestroyed(w, t)
  ELSE IF ~shouldWrite(mode, w.state) THEN [w EXCEPT !.state.committed = TRUE]
  ELSE persistWrite(w, t)

\* mutation: only the end-of-request commit heeds the committed flag
persistRecommitsByHand(mode, w, t) ==
  IF w.state.committed /\ mode = "auto" THEN w
  ELSE IF w.state.destroyed THEN persistDestroyed(w, t)
  ELSE IF ~shouldWrite(mode, w.state) THEN [w EXCEPT !.state.committed = TRUE]
  ELSE persistWrite(w, t)

\* mutation: the end-of-request commit does not look at destroyed
persistAutoForgetsDestroyed(mode, w, t) ==
  IF w.state.committed THEN w
  ELSE IF w.state.destroyed /\ mode = "manual" THEN persistDestroyed(w, t)
  ELSE IF ~shouldWrite(mode, w.state) THEN [w EXCEPT !.state.committed = TRUE]
  ELSE persistWrite(w, t)

\* mutation: a request writes the store once, the first write stands
persistWritesOnce(mode, w, t) ==
  IF w.state.committed THEN w
  ELSE IF w.state.destroyed THEN persistDestroyed(w, t)
  ELSE IF ~shouldWrite(mode, w.state)
          \/ (\E i \in 1 .. Len(w.calls) : w.calls[i].op = "set")
  THEN [w EXCEPT !.state.committed = TRUE]
  ELSE persistWrite(w, t)

persist(mode, w, t) ==
  IF w.state.committed THEN w
  ELSE IF w.state.destroyed THEN persistDestroyed(w, t)
  ELSE IF ~shouldWrite(mode, w.state) THEN [w EXCEPT !.state.committed = TRUE]
  ELSE persistWrite(w, t)

\* ------------------------------------------------------------------ Init
NoState == [id |-> NullId, data |-> InitialData, expiresAt |-> 0,
            isNew |-> TRUE, destroyed |-> FALSE, revision |-> 0,
            savedRevision |-> 0, committed |-> FALSE]

NoCall == [id |-> NullId, at |-> 0, out |-> {}, threw |-> FALSE,
           malformed |-> FALSE]

\* no request is suspended
NoRequest == [phase |-> "idle", incomingId |-> NullId, stored |-> {},
              state |-> NoState, headers |-> <<>>, calls |-> <<>>,
              opLog |-> <<>>]

\* the plugin tests run on the memory adapter, which is never called directly
StoreIdle ==
  /\ adapter = "memory"
  /\ storage = <<>>
  /\ last = NoCall
  /\ written = <<>>
  /\ opQueue = <<>>

Init ==
  /\ StoreIdle
  /\ rolling \in BOOLEAN
  /\ createOnRequest \in BOOLEAN
  /\ now = 0
  /\ sessions = <<>>
  /\ nextId = 0
  /\ phase = "idle"
  /\ incomingId = NullId
  /\ stored = {}
  /\ state = NoState
  /\ headers = <<>>
  /\ calls = <<>>
  /\ opLog = <<>>
  /\ opsDone = 0
  /\ destroyedIds = {}
  /\ other = NoRequest
  /\ heap = <<>>
  /\ pending = {}

\* --------------------------------------------------------------- actions
\* .resolve: read the cookie, load or create the session state; the request
\* carries cookie c and arrives d milliseconds after the previous response
Resolve(c, d) ==
  /\ phase \in {"idle", "responded", "failed"}
  /\ now + d <= MaxTicks * Tick
  /\ now' = now + d
  /\ LET got == IF Truthy(c) THEN MemGet(sessions, c, now') ELSE {}
         id == IF got # {} THEN c
               ELSE IF createOnRequest THEN nextId + 1 ELSE NullId
     IN /\ (got = {} /\ createOnRequest) => nextId + 1 <= MaxIds
        /\ incomingId' = c
        /\ stored' = got
        /\ sessions' = IF Truthy(c) THEN MemGetStore(sessions, c, now') ELSE sessions
        /\ calls' = IF Truthy(c) THEN <<Call("get", c, "resolve", got, now')>> ELSE <<>>
        /\ headers' = IF got = {} /\ Truthy(c)
                      THEN appendSetCookie(<<>>, serializeExpiredCookie(now'))
                      ELSE <<>>
        /\ nextId' = IF got = {} /\ createOnRequest THEN nextId + 1 ELSE nextId
        /\ state' = [id |-> id,
                     data |-> IF got # {} THEN The(got).data ELSE InitialData,
                     expiresAt |-> IF got # {} THEN The(got).expiresAt ELSE now' + TTL,
                     isNew |-> (got = {}),
                     destroyed |-> FALSE,
                     revision |-> 0,
                     savedRevision |-> 0,
                     committed |-> FALSE]
  /\ phase' = "handler"
  /\ opLog' = <<>>
  /\ UNCHANGED <<rolling, createOnRequest, opsDone, destroyedIds>>
  /\ UNCHANGED <<storeVars, other, heap, pending>>

\* a handler operation named op takes the world to w
Handle(op, w) ==
  /\ phase = "handler"
  /\ opsDone < MaxOps
  /\ opsDone' = opsDone + 1
  /\ w.nextId <= MaxIds
  /\ state' = w.state
  /\ sessions' = w.sessions
  /\ headers' = w.headers
  /\ calls' = w.calls
  /\ nextId' = w.nextId
  /\ opLog' = Append(opLog, op)
  /\ UNCHANGED <<rolling, createOnRequest, now, phase, incomingId, stored>>
  /\ UNCHANGED <<storeVars, other, heap, pending>>

\* session.get / has / id / isNew / data
Read ==
  /\ Handle("read", World)
  /\ UNCHANGED destroyedIds

Set(key, value) ==
  /\ Handle("mutate", [World EXCEPT
       !.state = markDirty([state EXCEPT
          !.data = [k \in (DOMAIN state.data) \cup {key} |->
                      IF k = key THEN value ELSE state.data[k]]])])
  /\ UNCHANGED destroyedIds

\* Object.assign(state.data, patch)
Assign(patch) ==
  /\ Handle("mutate", [World EXCEPT
       !.state = markDirty([state EXCEPT
          !.data = [k \in (DOMAIN state.data) \cup (DOMAIN patch) |->
                      IF k \in DOMAIN patch THEN patch[k] ELSE state.data[k]]])])
  /\ UNCHANGED destroyedIds

Replace(next) ==
  /\ Handle("mutate", [World EXCEPT
       !.state = markDirty([state EXCEPT !.data = next])])
  /\ UNCHANGED destroyedIds

\* the updater functions a handler passes to update()
Updaters == {"incVisits", "reset"}

ApplyUpdater(u, d) ==
  IF u = "incVisits"
  THEN [k \in (DOMAIN d) \cup {"visits"} |->
          IF k = "visits"
          THEN (IF "visits" \in DOMAIN d THEN d["visits"] ELSE 0) + 1
          ELSE d[k]]
  ELSE InitialData

Update(updater) ==
  /\ ApplyUpdater(updater, state.data) \in DataSpace
  /\ Handle("mutate", [World EXCEPT
       !.state = markDirty([state EXCEPT
          !.data = ApplyUpdater(updater, state.data)])])
  /\ UNCHANGED destroyedIds

Delete(key) ==
  /\ Handle("mutate", [World EXCEPT
       !.state = markDirty([state EXCEPT
          !.data = [k \in (DOMAIN state.data) \ {key} |-> state.data[k]]])])
  /\ UNCHANGED destroyedIds

\* mutation: the record of the previous id is left in the store
regenerateKeepsPrevious(w, t) ==
  IF w.state.destroyed THEN w
  ELSE [w EXCEPT !.state = markDirty([w.state EXCEPT !.id = generateId(w),
                                                     !.isNew = TRUE]),
                 !.nextId = generateId(w)]

\* mutation: the destroyed check is missing, the id is rotated all the same
regenerateOnDestroyed(w, t) ==
  LET previousId == w.state.id
      newId == generateId(w)
      w1 == [w EXCEPT !.state = markDirty([w.state EXCEPT !.id = newId,
                                                          !.isNew = TRUE]),
                      !.nextId = newId]
  IN IF previousId # newId /\ Truthy(previousId)
     THEN [w1 EXCEPT !.sessions = MemDelete(@, previousId),
                     !.calls = Append(@, Call("delete", previousId, "regenerate", {}, t))]
     ELSE w1

\* a destroyed session throws before anything is touched: the world is as it was
regenerate(w, t) ==
  LET previousId == w.state.id
      newId == generateId(w)
      w1 == [w EXCEPT !.state = markDirty([w.state EXCEPT !.id = newId,
                                                          !.isNew = TRUE]),
                      !.nextId = newId]
  IN IF w.state.destroyed THEN w
     ELSE IF previousId # newId /\ Truthy(previousId)
     THEN [w1 EXCEPT !.sessions = MemDelete(@, previousId),
                     !.calls = Append(@, Call("delete", previousId, "regenerate", {}, t))]
     ELSE w1

\* regenerate() on a live session
Regenerate ==
  /\ ~state.destroyed
  /\ Handle("regenerate", regenerate(World, now))
  /\ UNCHANGED destroyedIds

\* regenerate() on a destroyed session throws; the handler catches the error
RegenerateThrows ==
  /\ state.destroyed
  /\ Handle("throw", regenerate(World, now))
  /\ UNCHANGED destroyedIds

\* mutation: destroy() does not return early on a destroyed session
destroyNotIdempotent(w, t) ==
  persist("manual", [w EXCEPT !.state = markDirty([w.state EXCEPT !.destroyed = TRUE])], t)

destroy(w, t) ==
  IF w.state.destroyed THEN w
  ELSE persist("manual", [w EXCEPT !.state = markDirty([w.state EXCEPT !.destroyed = TRUE])], t)

Destroy ==
  /\ Handle("destroy", destroy(World, now))
  /\ destroyedIds' = IF stored # {} THEN destroyedIds \cup {incomingId}
                     ELSE destroyedIds

Save ==
  /\ Handle("save", persist("manual", World, now))
  /\ UNCHANGED destroyedIds

\* .onAfterHandle: the end-of-request commit
AfterHandle ==
  /\ phase = "handler"
  /\ LET w == persist("auto", World, now)
     IN /\ w.nextId <= MaxIds
        /\ state' = w.state
        /\ sessions' = w.sessions
        /\ headers' = w.headers
        /\ calls' = w.calls
        /\ nextId' = w.nextId
  /\ phase' = "responded"
  /\ UNCHANGED <<rolling, createOnRequest, now, incomingId, stored, opLog,
                 opsDone, destroyedIds>>
  /\ UNCHANGED <<storeVars, other, heap, pending>>

Next ==
  \/ \E c \in CookieInputs(nextId), d \in Elapsed : Resolve(c, d)
  \/ Read
  \/ \E k \in Keys, v \in Vals : Set(k, v)
  \/ \E patch \in DataSpace : Assign(patch)
  \/ \E next \in DataSpace : Replace(next)
  \/ \E u \in Updaters : Update(u)
  \/ \E k \in Keys : Delete(k)
  \/ Regenerate
  \/ RegenerateThrows
  \/ Destroy
  \/ Save
  \/ AfterHandle

Spec == Init /\ [][Next]_vars

\* -------------------------------------------- requests that do not complete
\* mutation: the commit is also run when the handler fails
HandlerFailsCommits ==
  /\ phase = "handler"
  /\ LET w == persist("auto", World, now)
     IN /\ w.nextId <= MaxIds
        /\ state' = w.state
        /\ sessions' = w.sessions
        /\ headers' = w.headers
        /\ calls' = w.calls
        /\ nextId' = w.nextId
  /\ phase' = "failed"
  /\ opsDone < MaxOps
  /\ opsDone' = opsDone + 1
  /\ UNCHANGED <<rolling, createOnRequest, now, incomingId, stored, opLog,
                 destroyedIds>>
  /\ UNCHANGED <<storeVars, other, heap, pending>>

\* The handler throws an error nobody catches, or the request is cut off
\* while the handler runs.  The commit is registered as an after-handle hook
\* and nowhere else; such hooks run when the handler has returned a value.
\* The failing step counts as one of the handler's operations.
HandlerFails ==
  /\ phase = "handler"
  /\ phase' = "failed"
  /\ opsDone < MaxOps
  /\ opsDone' = opsDone + 1
  /\ UNCHANGED <<rolling, createOnRequest, now, sessions, nextId, incomingId,
                 stored, state, headers, calls, opLog, destroyedIds>>
  /\ UNCHANGED <<storeVars, other, heap, pending>>

NextFail ==
  \/ Next
  \/ HandlerFails

SpecFail == Init /\ [][NextFail]_vars

\* ------------------------------------------------- the adapters, directly
Adapters == {"memory", "file", "redis", "drizzle", "drizzleColumns"}
AdapterIds == 1 .. MaxRecords
ExpiryInputs == {k * Tick : k \in 1 .. MaxTicks}
\* one payload for each set of keys a session can have
Payloads == {d \in DataSpace : \A k \in DOMAIN d : d[k] = 0}
Records == [data : Payloads, expiresAt : ExpiryInputs]

\* JSON.stringify, and a text JSON.parse throws on
stringify(v) == [ok |-> TRUE, v |-> v]
Garbage == [ok |-> FALSE, v |-> <<>>]

\* the outcome of an adapter call: the storage after it, what it returned
\* ({} for null or void), whether it threw instead
Result(st, out, threw) == [st |-> st, out |-> out, threw |-> threw]

\* ---- file adapter: the storage is the text of one JSON file
removeExpired(dict, t) ==
  [x \in {y \in DOMAIN dict : dict[y].expiresAt > t} |-> dict[x]]

FileGet(st, id, t) ==
  IF ~st.ok THEN Result(st, {}, TRUE)
  ELSE LET next == removeExpired(st.v, t)
       IN Result(stringify(next),
                 IF id \in DOMAIN next THEN {next[id]} ELSE {}, FALSE)

FileSet(st, id, rec, t) ==
  IF ~st.ok THEN Result(st, {}, TRUE)
  ELSE Result(stringify(MemSet(removeExpired(st.v, t), id, rec)), {}, FALSE)

FileDelete(st, id, t) ==
  IF ~st.ok THEN Result(st, {}, TRUE)
  ELSE Result(stringify(MemDelete(removeExpired(st.v, t), id)), {}, FALSE)

\* ---- redis adapter: key -> payload text and the deadline set by PEXPIRE
RedisGet(st, id, t) ==
  IF id \notin DOMAIN st THEN Result(st, {}, FALSE)
  ELSE IF ~st[id].payload.ok THEN Result(MemDelete(st, id), {}, FALSE)
  ELSE IF st[id].payload.v.expiresAt <= t THEN Result(MemDelete(st, id), {}, FALSE)
  ELSE Result(st, {st[id].payload.v}, FALSE)

RedisSet(st, id, rec, t) ==
  LET ttl == rec.expiresAt - t
  IN IF ttl <= 0 THEN Result(MemDelete(st, id), {}, FALSE)
     ELSE Result(MemSet(st, id, [payload |-> stringify(rec), px |-> t + ttl]),
                 {}, FALSE)

RedisDelete(st, id, t) == Result(MemDelete(st, id), {}, FALSE)

\* ---- drizzle adapter: id -> row
\* default serializeExpiresAt writes a Date, toTimestamp reads its getTime()
serializeExpiresAt(ms) == [date |-> ms]
toTimestamp(raw) == raw.date

\* single serialized column
DrizzleGet(st, id, t) ==
  IF id \notin DOMAIN st THEN Result(st, {}, FALSE)
  ELSE LET expiresAt == toTimestamp(st[id].expiresAt)
       IN IF expiresAt <= t THEN Result(MemDelete(st, id), {}, FALSE)
          ELSE IF ~st[id].data.ok THEN Result(st, {}, TRUE)
          ELSE Result(st, {[data |-> st[id].data.v, expiresAt |-> expiresAt]}, FALSE)

DrizzleSet(st, id, rec, t) ==
  Result(MemSet(MemDelete(st, id), id,
                [data |-> stringify(rec.data),
                 expiresAt |-> serializeExpiresAt(rec.expiresAt)]), {}, FALSE)

DrizzleDelete(st, id, t) == Result(MemDelete(st, id), {}, FALSE)

\* one column per session key; a key the data lacks is written as undefined,
\* which the table keeps as NULL
SqlNull == 0 - 1
DataColumns == Keys

ColumnsGet(st, id, t) ==
  IF id \notin DOMAIN st THEN Result(st, {}, FALSE)
  ELSE LET expiresAt == toTimestamp(st[id].expiresAt)
       IN IF expiresAt <= t THEN Result(MemDelete(st, id), {}, FALSE)
          ELSE Result(st, {[data |-> [k \in DataColumns |-> st[id].cols[k]],
                            expiresAt |-> expiresAt]}, FALSE)

ColumnsSet(st, id, rec, t) ==
  Result(MemSet(MemDelete(st, id), id,
                [cols |-> [k \in DataColumns |->
                             IF k \in DOMAIN rec.data THEN rec.data[k] ELSE SqlNull],
                 expiresAt |-> serializeExpiresAt(rec.expiresAt)]), {}, FALSE)

\* ---- SessionStoreAdapter: get / set / delete of whichever adapter a is
Get(a, st, id, t) ==
  CASE a = "memory" -> Result(MemGetStore(st, id, t), MemGet(st, id, t), FALSE)
    [] a = "file" -> FileGet(st, id, t)
    [] a = "redis" -> RedisGet(st, id, t)
    [] a = "drizzle" -> DrizzleGet(st, id, t)
    [] a = "drizzleColumns" -> ColumnsGet(st, id, t)

SetRecord(a, st, id, rec, t) ==
  CASE a = "memory" -> Result(MemSet(st, id, rec), {}, FALSE)
    [] a = "file" -> FileSet(st, id, rec, t)
    [] a = "redis" -> RedisSet(st, id, rec, t)
    [] a = "drizzle" -> DrizzleSet(st, id, rec, t)
    [] a = "drizzleColumns" -> ColumnsSet(st, id, rec, t)

DeleteRecord(a, st, id, t) ==
  CASE a = "memory" -> Result(MemDelete(st, id), {}, FALSE)
    [] a = "file" -> FileDelete(st, id, t)
    [] a = "redis" -> RedisDelete(st, id, t)
    [] a = "drizzle" -> DrizzleDelete(st, id, t)
    [] a = "drizzleColumns" -> DrizzleDelete(st, id, t)

\* the storage holds, for id, a payload the adapter cannot decode
Malformed(a, st, id) ==
  CASE a = "file" -> ~st.ok
    [] a = "redis" -> id \in DOMAIN st /\ ~st[id].payload.ok
    [] a = "drizzle" -> id \in DOMAIN st /\ ~st[id].data.ok
    [] OTHER -> FALSE

EmptyStorage(a) == IF a = "file" THEN stringify(<<>>) ELSE <<>>

\* ---- the adapter driven by a caller, one call after the other
\* the plugin serves no request meanwhile
PluginIdle ==
  /\ rolling = TRUE
  /\ createOnRequest = TRUE
  /\ sessions = <<>>
  /\ nextId = 0
  /\ phase = "idle"
  /\ incomingId = NullId
  /\ stored = {}
  /\ state = NoState
  /\ headers = <<>>
  /\ calls = <<>>
  /\ opLog = <<>>
  /\ opsDone = 0
  /\ destroyedIds = {}
  /\ other = NoRequest
  /\ heap = <<>>
  /\ pending = {}

InitAdapter ==
  /\ PluginIdle
  /\ now = 0
  /\ adapter \in Adapters
  /\ storage = EmptyStorage(adapter)
  /\ last = NoCall
  /\ written = <<>>
  /\ opQueue = <<>>

AdapterGet(id) ==
  /\ LET r == Get(adapter, storage, id, now)
     IN /\ storage' = r.st
        /\ last' = [id |-> id, at |-> now, out |-> r.out, threw |-> r.threw,
                    malformed |-> Malformed(adapter, storage, id)]
  /\ UNCHANGED <<now, adapter, written, opQueue>>
  /\ UNCHANGED pluginVars

AdapterSet(id, rec) ==
  /\ LET r == SetRecord(adapter, storage, id, rec, now)
     IN /\ storage' = r.st
        /\ written' = IF ~r.threw /\ rec.expiresAt > now
                      THEN MemSet(written, id, rec)
                      ELSE MemDelete(written, id)
  /\ last' = NoCall
  /\ UNCHANGED <<now, adapter, opQueue>>
  /\ UNCHANGED pluginVars

AdapterDelete(id) ==
  /\ storage' = DeleteRecord(adapter, storage, id, now).st
  /\ written' = MemDelete(written, id)
  /\ last' = NoCall
  /\ UNCHANGED <<now, adapter, opQueue>>
  /\ UNCHANGED pluginVars

\* options.now: the injected clock moves on
AdvanceClock ==
  /\ now + Tick <= MaxTicks * Tick
  /\ now' = now + Tick
  /\ UNCHANGED <<adapter, storage, last, written, opQueue>>
  /\ UNCHANGED pluginVars

\* the server drops a key whose PEXPIRE deadline has passed
RedisExpire(id) ==
  /\ adapter = "redis"
  /\ id \in DOMAIN storage
  /\ storage[id].px <= now
  /\ storage' = MemDelete(storage, id)
  /\ UNCHANGED <<now, adapter, last, written, opQueue>>
  /\ UNCHANGED pluginVars

\* something else than the adapter leaves an undecodable payload under id
Corrupt(id) ==
  /\ adapter \in {"redis", "drizzle"}
  /\ id \in DOMAIN storage
  /\ ~Malformed(adapter, storage, id)
  /\ storage' = IF adapter = "redis"
                THEN [storage EXCEPT ![id].payload = Garbage]
                ELSE [storage EXCEPT ![id].data = Garbage]
  /\ written' = MemDelete(written, id)
  /\ last' = NoCall
  /\ UNCHANGED <<now, adapter, opQueue>>
  /\ UNCHANGED pluginVars

\* ... or leaves a session file that is not JSON
CorruptFile ==
  /\ adapter = "file"
  /\ storage.ok
  /\ storage' = Garbage
  /\ written' = <<>>
  /\ last' = NoCall
  /\ UNCHANGED <<now, adapter, opQueue>>
  /\ UNCHANGED pluginVars

NextAdapter ==
  \/ \E id \in AdapterIds : AdapterGet(id)
  \/ \E id \in AdapterIds, rec \in Records : AdapterSet(id, rec)
  \/ \E id \in AdapterIds : AdapterDelete(id)
  \/ AdvanceClock
  \/ \E id \in AdapterIds : RedisExpire(id)
  \/ \E id \in AdapterIds : Corrupt(id)
  \/ CorruptFile

SpecAdapter == InitAdapter /\ [][NextAdapter]_vars

\* ---- the file adapter under calls that are not awaited one by one
FileOps == {"get", "set", "delete"}

\* the ids and the record the concurrent callers use
QueueIds == 1 .. MaxIds
QueueRecord == [data |-> InitialData, expiresAt |-> Tick]

\* mutation: the task is started at once instead of behind the queue
enqueueUnchained(q, task) == Append(q, [task EXCEPT !.after = 0])

\* .enqueue: the task is chained on the promise of the task enqueued before
enqueue(q, task) == Append(q, [task EXCEPT !.after = Len(q)])

InitFileQueue ==
  /\ PluginIdle
  /\ now = 0
  /\ adapter = "file"
  /\ storage = EmptyStorage("file")
  /\ last = NoCall
  /\ written = <<>>
  /\ opQueue = <<>>

\* get / set / delete is called; pending counts the operations in flight
FileInvoke(op, id) ==
  /\ Len(opQueue) < MaxCalls
  /\ opQueue' = enqueue(opQueue,
       [op |-> op, id |-> id, pc |-> "queued", after |-> 0, local |-> <<>>,
        pending |-> Cardinality({i \in 1 .. Len(opQueue) : opQueue[i].pc # "done"})])
  /\ UNCHANGED <<now, adapter, storage, last, written>>
  /\ UNCHANGED pluginVars

\* mutation: the queue goes on only behind a task that succeeded
settledOnlyDone(q, i) == q[i].pc = "done"

\* the promise of task i has settled, fulfilled or rejected: the queue is
\* chained with then(task, task) and swallows the outcome
settled(q, i) == q[i].pc \in {"done", "failed"}

\* the task starts: readStore, removeExpired, and the change made in memory
FileRead(i) ==
  /\ i \in 1 .. Len(opQueue)
  /\ opQueue[i].pc = "queued"
  /\ IF opQueue[i].after = 0 THEN TRUE
     ELSE settled(opQueue, opQueue[i].after)
  /\ storage.ok
  /\ LET next == removeExpired(storage.v, now)
         id == opQueue[i].id
     IN opQueue' = [opQueue EXCEPT
          ![i].pc = "loaded",
          ![i].local = CASE opQueue[i].op = "set" -> MemSet(next, id, QueueRecord)
                         [] opQueue[i].op = "delete" -> MemDelete(next, id)
                         [] OTHER -> next]
  /\ UNCHANGED <<now, adapter, storage, last, written>>
  /\ UNCHANGED pluginVars

\* the task ends: writeStore (get writes only what removeExpired changed)
FileWrite(i) ==
  /\ i \in 1 .. Len(opQueue)
  /\ opQueue[i].pc = "loaded"
  /\ storage' = stringify(opQueue[i].local)
  /\ opQueue' = [opQueue EXCEPT ![i].pc = "done"]
  /\ UNCHANGED <<now, adapter, last, written>>
  /\ UNCHANGED pluginVars

NextFileQueue ==
  \/ \E op \in FileOps, id \in QueueIds : FileInvoke(op, id)
  \/ \E i \in 1 .. MaxCalls : FileRead(i)
  \/ \E i \in 1 .. MaxCalls : FileWrite(i)

SpecFileQueue == InitFileQueue /\ [][NextFileQueue]_vars

\* ------------------------------------------------- vocabulary of the claims
Responded == phase = "responded"
FreshlyResolved == phase = "handler" /\ opLog = <<>>
Did(op) == \E i \in 1 .. Len(opLog) : opLog[i] = op
OnlyReads == \A i \in 1 .. Len(opLog) : opLog[i] = "read"
NoMutation == \A i \in 1 .. Len(opLog) : opLog[i] \in {"read", "save"}

ValidIncoming == stored # {}
StaleIncoming == Truthy(incomingId) /\ stored = {}
AbsentIncoming == ~Truthy(incomingId)

IsSet(c) == c.op = "set"
IsDelete(c) == c.op = "delete"
IsCommitDelete(c) == c.op = "delete" /\ c.by = "persist"
IsRegenerateDelete(c) == c.op = "delete" /\ c.by = "regenerate"
SetsOf(cs) == SelectSeq(cs, IsSet)
DeletesOf(cs) == SelectSeq(cs, IsDelete)
CommitDeletesOf(cs) == SelectSeq(cs, IsCommitDelete)
\* Set-Cookie headers emitted by the commit step: all but resolve's clearing one
CommitCookies == Len(headers) - (IF StaleIncoming THEN 1 ELSE 0)
LastHeader == headers[Len(headers)]

\* ------------------------------------------------------------------- C1
\* C1: a request that replays the session cookie returned by the previous
\* response, before that cookie's expiry, starts with exactly the data the
\* previous request ended with, under the same id.
C1_ReplayLoadsCommittedData ==
  [][(phase = "responded" /\ phase' = "handler"
        /\ headers # <<>> /\ IsLive(LastHeader)
        /\ incomingId' = LastHeader.value /\ now' < LastHeader.expires)
       => /\ stored' # {}
          /\ ~state'.isNew
          /\ state'.id = LastHeader.value
          /\ state'.data = state.data]_vars

\* the visits counter: a request starts with the 1 that the one mutation of
\* the behaviour stored under the one id issued so far
C1_Witness ==
  /\ FreshlyResolved /\ ValidIncoming /\ ~state.isNew
  /\ nextId = 1 /\ opsDone = 1 /\ now > 0
  /\ "visits" \in DOMAIN state.data /\ state.data["visits"] = 1

\* ------------------------------------------------------------------- C2
\* C2: once a handler holding valid id X has called destroy(), the store has
\* no record under X, the finished response ends with a clearing cookie, and
\* every later request with cookie X starts from initialData().
C2_DestroyRemovesSession ==
  /\ \A x \in destroyedIds : x \notin DOMAIN sessions
  /\ (Responded /\ Did("destroy") /\ ValidIncoming)
       => (headers # <<>> /\ IsClearing(LastHeader))
  /\ (FreshlyResolved /\ incomingId \in destroyedIds)
       => (stored = {} /\ state.isNew /\ state.data = InitialData
           /\ state.id # incomingId)

\* a request arrives with the cookie of a session destroyed earlier
C2_Witness ==
  /\ FreshlyResolved /\ incomingId \in destroyedIds
  /\ stored = {} /\ state.isNew

\* ------------------------------------------------------------------- C3
\* C3 as stated: in lazy mode a handler that only reads ends with no
\* Set-Cookie header and no adapter.set, whatever the cookie and rolling.
C3_LazyReadNeverSetsCookie ==
  (Responded /\ ~createOnRequest /\ OnlyReads)
    => (headers = <<>> /\ SetsOf(calls) = <<>>)

\* C3 amended: in lazy mode a handler that only reads ends with no Set-Cookie
\* header and no adapter.set when the cookie is absent, or valid with rolling
\* off; with a stale cookie there is no adapter.set and the only header is
\* the clearing cookie.
C3_LazyReadNoSessionCookie ==
  (Responded /\ ~createOnRequest /\ OnlyReads)
    => /\ (AbsentIncoming \/ (ValidIncoming /\ ~rolling))
            => (headers = <<>> /\ SetsOf(calls) = <<>>)
       /\ StaleIncoming
            => /\ SetsOf(calls) = <<>>
               /\ Len(headers) = 1 /\ IsClearing(headers[1])

\* a lazy read-only request that came with a stale cookie has finished
C3_Witness ==
  /\ Responded /\ ~createOnRequest /\ OnlyReads /\ opLog # <<>>
  /\ StaleIncoming /\ rolling

\* ------------------------------------------------------------------- C4
\* C4 as stated: in eager mode every finished response of a handler that did
\* not destroy carries a live cookie whose id has a record in the store.
C4_EagerAlwaysCookie ==
  (Responded /\ createOnRequest /\ ~Did("destroy"))
    => \E i \in 1 .. Len(headers) :
         IsLive(headers[i]) /\ headers[i].value \in DOMAIN sessions

\* C4 amended: the same, provided the incoming cookie is absent or stale, or
\* rolling is on, or the handler mutated or regenerated the session; the live
\* cookie is then the last header and names the session id.
C4_EagerCookieUnlessQuietLoaded ==
  (Responded /\ createOnRequest /\ ~Did("destroy")
     /\ (~ValidIncoming \/ rolling \/ state.revision > 0))
    => /\ headers # <<>>
       /\ IsLive(LastHeader)
       /\ LastHeader.value = state.id
       /\ state.id \in DOMAIN sessions
       /\ sessions[state.id].expiresAt = LastHeader.expires

\* an eager read-only request without cookie, rolling off, has finished
C4_Witness ==
  /\ Responded /\ createOnRequest /\ OnlyReads /\ opLog # <<>>
  /\ AbsentIncoming /\ ~rolling
  /\ Len(headers) = 1 /\ IsLive(headers[1])

\* ------------------------------------------------------------------- C5
\* C5: with rolling on, a request with a valid id whose handler does not
\* mutate ends with exactly one adapter.set, under that id, with the loaded
\* data and expiresAt = time of the commit + ttl, and one live cookie for
\* that id with the same expiry.
C5_RollingRefresh ==
  (Responded /\ rolling /\ ValidIncoming /\ NoMutation)
    => /\ Len(SetsOf(calls)) = 1
       /\ LET w == SetsOf(calls)[1]
          IN /\ w.id = incomingId
             /\ w.rec = {[data |-> The(stored).data, expiresAt |-> w.at + TTL]}
             /\ sessions[incomingId] = The(w.rec)
             /\ headers = <<[value |-> incomingId,
                             maxAge |-> TTL \div 1000,
                             expires |-> w.at + TTL]>>

\* a rolling read-only request pushed the expiry of a loaded session forward
C5_Witness ==
  /\ Responded /\ rolling /\ ValidIncoming /\ OnlyReads /\ opLog # <<>>
  /\ state.expiresAt > The(stored).expiresAt

\* ------------------------------------------------------------------- C6
\* C6: with rolling off, a request that loaded a session and only reads makes
\* no adapter.set, no adapter.delete and no Set-Cookie header, and leaves the
\* stored record, expiry included, as it was loaded.
C6_NonRollingReadIsNoOp ==
  (phase \in {"handler", "responded"} /\ ~rolling /\ ValidIncoming /\ OnlyReads)
    => /\ SetsOf(calls) = <<>>
       /\ DeletesOf(calls) = <<>>
       /\ headers = <<>>
       /\ incomingId \in DOMAIN sessions
       /\ sessions[incomingId] = The(stored)

\* a non-rolling read-only request on a loaded session has finished, later
\* than the session was written
C6_Witness ==
  /\ Responded /\ ~rolling /\ ValidIncoming /\ OnlyReads /\ opLog # <<>>
  /\ now > 0 /\ now + TTL > The(stored).expiresAt

\* ------------------------------------------------------------------- C7
\* C7: save() on a session that is neither destroyed nor committed calls
\* adapter.set under the session id before it returns, in every
\* configuration.
C7_SaveAlwaysWrites ==
  [][(phase = "handler" /\ ~state.destroyed /\ ~state.committed /\ Save)
       => /\ Len(calls') = Len(calls) + 1
          /\ IsSet(calls'[Len(calls')])
          /\ calls'[Len(calls')].id = state'.id]_vars

\* ------------------------------------------------------------------- C8
\* C8: destroy() on a session that is already destroyed changes nothing: no
\* adapter call, no cookie, the same store and the same session flags.
C8_DestroyIdempotent ==
  [][(phase = "handler" /\ state.destroyed /\ Destroy)
       => UNCHANGED <<sessions, state, headers, calls, nextId, destroyedIds>>]_vars

\* destroy() was called twice on a loaded session: one delete, one cookie
C8_Witness ==
  /\ opLog = <<"destroy", "destroy">>
  /\ ValidIncoming
  /\ Len(DeletesOf(calls)) = 1 /\ Len(headers) = 1

\* ------------------------------------------------------------------- C9
\* C9 as stated: in one request the commit issues at most one adapter.set,
\* at most one adapter.delete and at most one Set-Cookie header.
C9_ExactlyOncePerRequest ==
  /\ Len(SetsOf(calls)) <= 1
  /\ Len(CommitDeletesOf(calls)) <= 1
  /\ CommitCookies <= 1

\* C9 amended: the commit's effects occur at most once per revision: one run
\* of the commit issues at most one adapter.set or adapter.delete and at most
\* one Set-Cookie header, and once the session is committed nothing more is
\* issued until a mutation, regenerate() or destroy() has raised the revision.
C9_AtMostOncePerRevision ==
  [][phase = "handler"
       => /\ Len(SetsOf(calls')) + Len(CommitDeletesOf(calls'))
               <= Len(SetsOf(calls)) + Len(CommitDeletesOf(calls)) + 1
          /\ Len(headers') <= Len(headers) + 1
          /\ (state.committed /\ state'.revision = state.revision)
               => /\ sessions' = sessions
                  /\ calls' = calls
                  /\ headers' = headers]_vars

\* save(), then a mutation, then the end-of-request commit: two writes
C9_Witness ==
  /\ Responded /\ opLog = <<"save", "mutate">>
  /\ Len(SetsOf(calls)) = 2 /\ state.revision = 1

\* ------------------------------------------------------------------ C10
\* C10: after regenerate() and the commit, get of every previous id returns
\* nothing, and get of the new id returns the final session data.
C10_RegenerateIsolation ==
  (Responded /\ Did("regenerate") /\ ~state.destroyed)
    => /\ ValidIncoming => MemGet(sessions, incomingId, now) = {}
       /\ \A i \in 1 .. Len(calls) :
            IsRegenerateDelete(calls[i]) => calls[i].id \notin DOMAIN sessions
       /\ state.id # incomingId
       /\ now < state.expiresAt
            => MemGet(sessions, state.id, now)
                 = {[data |-> state.data, expiresAt |-> state.expiresAt]}

\* a loaded session was regenerated, then mutated, and the request finished
C10_Witness ==
  /\ Responded /\ opLog = <<"regenerate", "mutate">>
  /\ ValidIncoming /\ now < state.expiresAt
  /\ state.data # The(stored).data

\* ------------------------------------------------------------------ C11
\* C11: regenerate() on a destroyed session fails and changes nothing: id,
\* data, isNew, revision, savedRevision, committed, the store, the adapter
\* calls and the Set-Cookie headers are as before, and no id is generated.
C11_RegenerateOnDestroyedChangesNothing ==
  [][(phase = "handler" /\ state.destroyed /\ RegenerateThrows)
       => /\ UNCHANGED <<state, sessions, headers, calls, nextId>>
          /\ opLog' = Append(opLog, "throw")]_vars

\* a loaded session was destroyed, then regenerate() was called and threw
C11_Witness ==
  /\ opLog = <<"destroy", "throw">>
  /\ ValidIncoming /\ state.destroyed /\ state.id = incomingId

\* ------------------------------------------------------------------ C12
\* C12: once destroy() has been called, a mutation (set, assign, replace,
\* update, delete) leaves data, revision and committed as they were, and no
\* later step of the request touches the store or emits a Set-Cookie header.
C12_NoMutationOnceDestroyed ==
  [][(phase = "handler" /\ state.destroyed)
       => /\ sessions' = sessions
          /\ calls' = calls
          /\ headers' = headers
          /\ opLog' = Append(opLog, "mutate")
               => /\ state'.data = state.data
                  /\ state'.revision = state.revision
                  /\ state'.committed = state.committed]_vars

\* ------------------------------------------------------------------ C13
\* C13: a request whose cookie carries a non-empty id for which adapter.get
\* returned nothing has a clearing cookie (empty value, Max-Age=0) among the
\* headers of its response, whatever rolling, createOnRequest and the
\* handler are.
C13_StaleIdIsCleared ==
  (phase \in {"handler", "responded"} /\ StaleIncoming)
    => \E i \in 1 .. Len(headers) : IsClearing(headers[i])

\* an issued id has expired; the handler mutated and the response is complete
C13_Witness ==
  /\ Responded /\ StaleIncoming /\ Did("mutate")
  /\ incomingId \in 1 .. nextId /\ incomingId \notin destroyedIds
  /\ now >= TTL
  /\ Len(headers) = 2 /\ IsClearing(headers[1]) /\ IsLive(headers[2])

\* ------------------------------------------------------------------ C14
\* save() was called at a point where destroy() had not been called
SavedAlive ==
  \E i \in 1 .. Len(opLog) :
     opLog[i] = "save" /\ \A j \in 1 .. i : opLog[j] # "destroy"

\* C14 as stated: in lazy mode without a valid incoming session, session.id
\* is null before the first mutation, regenerate() or save(), and non-null
\* once the first of them has returned.
C14_LazyIdOnFirstMutation ==
  (phase = "handler" /\ ~createOnRequest /\ ~ValidIncoming)
    => /\ (~Did("mutate") /\ ~Did("regenerate") /\ ~Did("save"))
            => state.id = NullId
       /\ (Did("mutate") \/ Did("regenerate") \/ Did("save"))
            => state.id # NullId

\* C14 amended: in lazy mode without a valid incoming session, session.id is
\* null until the first regenerate() or save(), mutations included; it is
\* non-null once regenerate() has returned or save() has returned on a
\* session not destroyed before; a session that was only mutated has its id
\* when the end-of-request commit has run.
C14_LazyIdOnFirstWrite ==
  (~createOnRequest /\ ~ValidIncoming)
    => /\ (phase = "handler" /\ ~Did("regenerate") /\ ~Did("save"))
            => state.id = NullId
       /\ (phase \in {"handler", "responded"} /\ (Did("regenerate") \/ SavedAlive))
            => state.id # NullId
       /\ (Responded /\ Did("mutate") /\ ~Did("destroy"))
            => state.id # NullId

\* a lazy session was mutated and has no id yet; the handler is still running
C14_Witness ==
  /\ phase = "handler" /\ ~createOnRequest /\ AbsentIncoming
  /\ opLog = <<"mutate">> /\ state.revision = 1
  /\ state.id = NullId

\* ------------------------------------------------------------------ C15
Failed == phase = "failed"

\* C15: the commit runs also when the handler throws: what the handler
\* changed before it threw is committed, and a mutated session that was not
\* destroyed is in the store with the handler's data.
C15_CommitRunsOnThrow ==
  (Failed /\ Did("mutate") /\ ~state.destroyed)
    => /\ state.committed
       /\ state.id \in DOMAIN sessions
       /\ sessions[state.id].data = state.data

\* ------------------------------------------------------------------ C16
\* C16 as stated: after a request that was cut off before its handler
\* completed, the record the session was loaded from is in the store as it
\* was loaded, unless save() or destroy() was called.
C16_AbortLeavesStore ==
  (Failed /\ ValidIncoming /\ ~Did("save") /\ ~Did("destroy"))
    => /\ incomingId \in DOMAIN sessions
       /\ sessions[incomingId] = The(stored)

\* C16 amended: when a request is cut off before its handler completes, the
\* commit does not run: the cut-off itself changes neither store nor headers
\* nor session state, and of the handler operations only save(), destroy()
\* and regenerate() have touched the store; reads, mutations and a failed
\* regenerate() leave the store and the adapter calls as they were.
C16_AbortLeavesStoreButRegenerate ==
  [][phase = "handler"
       => /\ phase' = "failed"
               => UNCHANGED <<sessions, calls, headers, state, nextId>>
          /\ (phase' = "handler"
                /\ opLog'[Len(opLog')] \in {"read", "mutate", "throw"})
               => (sessions' = sessions /\ calls' = calls)]_vars

\* a loaded session was mutated and the request was cut off: the record is
\* in the store as it was loaded
C16_Witness ==
  /\ Failed /\ ValidIncoming /\ opLog = <<"mutate">>
  /\ state.data # The(stored).data
  /\ sessions[incomingId] = The(stored)

\* ------------------------------------------------------------------ C17
\* C17: whichever the adapter and whatever was set, got, deleted before and
\* however the clock moved, get(id) never returns a record with
\* expiresAt <= now, the record being still in the storage or not.
C17_GetNeverReturnsExpired ==
  /\ (last.id # NullId /\ ~last.threw)
       => \A r \in last.out : r.expiresAt > last.at
  /\ \A id \in AdapterIds :
       \A r \in Get(adapter, storage, id, now).out : r.expiresAt > now

\* get was called at the very instant the record set before expires, the
\* record being still in the storage before the call: it returned nothing
C17_Witness ==
  /\ last.id \in DOMAIN written /\ ~last.threw
  /\ written[last.id].expiresAt = last.at
  /\ last.out = {}

\* ------------------------------------------------------------------ C18
\* C18: for every adapter, a get(id) made before the expiry of the record r
\* last set under id, with no set or delete on id in between, returns r:
\* the same data and the same expiresAt.
C18_SetThenGetRoundTrip ==
  (last.id \in DOMAIN written /\ last.at < written[last.id].expiresAt)
    => (~last.threw /\ last.out = {written[last.id]})

\* ------------------------------------------------------------------ C20
\* C20: for every adapter, a get(id) that finds a payload it cannot decode
\* returns nothing instead of throwing, and the payload is no longer in the
\* storage afterwards.
C20_MalformedIsAbsentAndRemoved ==
  (last.id # NullId /\ last.malformed)
    => /\ ~last.threw
       /\ last.out = {}
       /\ ~Malformed(adapter, storage, last.id)

\* ------------------------------------------------------------------ C19
\* the file after the first n operations of q, run one after the other
RECURSIVE ApplyCalls(_, _)
ApplyCalls(q, n) ==
  IF n = 0 THEN <<>>
  ELSE LET before == ApplyCalls(q, n - 1)
       IN CASE q[n].pc # "done" -> before
            [] q[n].op = "set" -> MemSet(before, q[n].id, QueueRecord)
            [] q[n].op = "delete" -> MemDelete(before, q[n].id)
            [] OTHER -> before

\* C19: on one file adapter the operations never interleave: an operation
\* reads the file only when every operation enqueued before it has written,
\* and the file holds what the completed operations give when run one after
\* the other, so that of two concurrent sets neither is lost.
C19_FileOperationsSerialized ==
  /\ \A i, j \in 1 .. Len(opQueue) :
       (i < j /\ opQueue[j].pc # "queued") => opQueue[i].pc = "done"
  /\ storage.ok
  /\ storage.v = ApplyCalls(opQueue, Len(opQueue))

\* set(1) and set(2), the second called while the first was in flight, have
\* both completed and both records are in the file
C19_Witness ==
  /\ Len(opQueue) = 2
  /\ opQueue[1].op = "set" /\ opQueue[1].id = 1 /\ opQueue[1].pc = "done"
  /\ opQueue[2].op = "set" /\ opQueue[2].id = 2 /\ opQueue[2].pc = "done"
  /\ opQueue[2].pending = 1
  /\ DOMAIN storage.v = {1, 2}

\* ------------------------------------------------------------------ C21
\* the steps in which the commit runs: save() by hand, the end of the request
SaveStep == phase = "handler" /\ opLog' = Append(opLog, "save")
CommitStep == phase = "handler" /\ phase' = "responded"
Wrote == Len(SetsOf(calls')) = Len(SetsOf(calls)) + 1

\* an id was assigned at some point of the request
EverAssigned ==
  ValidIncoming \/ createOnRequest \/ Did("regenerate") \/ SetsOf(calls) # <<>>

\* the table of the write decision
WriteTable(manual) ==
  LET dirty == state.revision > state.savedRevision
  IN IF state.isNew
     THEN createOnRequest \/ EverAssigned \/ dirty \/ manual
     ELSE dirty \/ (rolling /\ ValidIncoming)

\* C21: whenever the commit evaluates a session that is neither destroyed nor
\* committed, it writes exactly when the table says so: new sessions when
\* createOnRequest, an id ever assigned, dirty or saved by hand; loaded ones
\* when dirty or rolling with an incoming id that resolved to a record.
C21_WriteDecisionIsTheTable ==
  [][(phase = "handler" /\ ~state.destroyed /\ ~state.committed)
       => /\ SaveStep => (Wrote <=> WriteTable(TRUE))
          /\ CommitStep => (Wrote <=> WriteTable(FALSE))]_vars

\* a stale cookie, a save() that made the session not new, a mutation, and
\* the commit at the end evaluated a session that is not new and was not loaded
C21_Witness ==
  /\ Responded /\ StaleIncoming /\ opLog = <<"save", "mutate">>
  /\ ~state.isNew /\ Len(SetsOf(calls)) = 2

\* ------------------------------------------------------------------ C22
\* C22: every commit that writes keeps the id the session has or gives it a
\* freshly generated one, sets expiresAt to the current time + ttl whatever
\* rolling and the loaded expiry are, calls adapter.set(id, {data, expiresAt})
\* as its only adapter call, emits as its only header a live cookie with that
\* id and that expiry, and leaves isNew false, savedRevision = revision and
\* committed true.
C22_CommitWriteSteps ==
  [][(phase = "handler" /\ (SaveStep \/ CommitStep) /\ Wrote)
       => LET id == state'.id
              toStore == [data |-> state.data, expiresAt |-> now + TTL]
          IN /\ id = (IF state.id # NullId THEN state.id ELSE nextId + 1)
             /\ nextId' = (IF state.id # NullId THEN nextId ELSE nextId + 1)
             /\ state'.expiresAt = now + TTL
             /\ state'.data = state.data
             /\ calls' = Append(calls, Call("set", id, "persist", {toStore}, now))
             /\ sessions' = MemSet(sessions, id, toStore)
             /\ headers' = Append(headers, [value |-> id,
                                            maxAge |-> TTL \div 1000,
                                            expires |-> now + TTL])
             /\ ~state'.isNew
             /\ state'.savedRevision = state'.revision
             /\ state'.revision = state.revision
             /\ state'.committed]_vars

\* rolling is off; a session loaded some time after it was written was
\* mutated, and the commit stored it with an expiry later than the loaded one
C22_Witness ==
  /\ Responded /\ ~rolling /\ ValidIncoming /\ opLog = <<"mutate">>
  /\ Len(SetsOf(calls)) = 1
  /\ sessions[state.id].expiresAt = now + TTL
  /\ The(stored).expiresAt < now + TTL

\* ------------------------------------------------------------------ C23
\* the steps in which the commit reaches its branch for destroyed sessions:
\* the first destroy(), or a commit on a destroyed session that a later
\* change has reopened
DestroyedCommitStep ==
  /\ phase = "handler"
  /\ \/ ~state.destroyed /\ opLog' = Append(opLog, "destroy")
     \/ state.destroyed /\ ~state.committed /\ (SaveStep \/ CommitStep)

\* C23: the commit of a destroyed session calls adapter.delete(id) exactly
\* when the session id is non-null, emits a clearing cookie exactly when the
\* request carried a cookie id or the session id is non-null, never calls
\* adapter.set, and leaves the session committed; a lazy session with neither
\* cookie nor id is destroyed without any adapter call or header.
C23_DestroyedCommit ==
  [][DestroyedCommitStep
       => /\ calls' = IF state.id # NullId
                      THEN Append(calls, Call("delete", state.id, "persist", {}, now))
                      ELSE calls
          /\ sessions' = IF state.id # NullId THEN MemDelete(sessions, state.id)
                         ELSE sessions
          /\ headers' = IF Truthy(incomingId) \/ state.id # NullId
                        THEN Append(headers, serializeExpiredCookie(now))
                        ELSE headers
          /\ IsClearing(serializeExpiredCookie(now))
          /\ SetsOf(calls') = SetsOf(calls)
          /\ state'.destroyed /\ state'.committed
          /\ state'.id = state.id
          /\ (~createOnRequest /\ AbsentIncoming /\ state.id = NullId)
               => (sessions' = sessions /\ calls' = calls /\ headers' = headers)]_vars

\* a lazy request with a cookie nobody issued was destroyed while it had no
\* id: no delete, and a clearing cookie after the one resolve emitted
C23_Witness ==
  /\ opLog = <<"destroy">> /\ ~createOnRequest /\ StaleIncoming
  /\ state.id = NullId /\ state.destroyed /\ state.committed
  /\ DeletesOf(calls) = <<>>
  /\ Len(headers) = 2 /\ IsClearing(headers[2])

\* ------------------------------------------------------------------ C24
\* C24: while the session is committed, by save() or by destroy(), and
\* nothing has changed it since, a further save() and the end-of-request
\* commit do nothing: no adapter call, no Set-Cookie header, no change of the
\* store or of any field of the session.
C24_CommittedCommitIsNoOp ==
  [][(phase = "handler" /\ state.committed /\ (SaveStep \/ CommitStep))
       => UNCHANGED <<state, sessions, calls, headers, nextId>>]_vars

\* save() twice and the end of the request: one write, one header
C24_Witness ==
  /\ Responded /\ opLog = <<"save", "save">> /\ AbsentIncoming
  /\ state.committed
  /\ Len(calls) = 1 /\ Len(headers) = 1

\* ------------------------------------------------------------------ C25
\* C25: once destroy() has been called, whatever the handler does next
\* (mutations, save(), destroy() again) and at the end-of-request commit,
\* adapter.set is not called, every header emitted is a clearing cookie, the
\* store holds no record under the session id, and destroyed stays true.
C25_DestroyedNeverPersistedAlive ==
  [][(phase = "handler" /\ state.destroyed)
       => /\ SetsOf(calls') = SetsOf(calls)
          /\ \A i \in (Len(headers) + 1) .. Len(headers') : IsClearing(headers'[i])
          /\ state'.destroyed
          /\ state'.id = state.id
          /\ state.id \notin DOMAIN sessions']_vars

\* a loaded session was destroyed, then mutated, and the request finished:
\* nothing was set, both headers clear the cookie, the record is gone
C25_Witness ==
  /\ Responded /\ opLog = <<"destroy", "mutate">> /\ ValidIncoming
  /\ state.destroyed /\ state.data # The(stored).data
  /\ SetsOf(calls) = <<>>
  /\ Len(headers) = 2 /\ IsClearing(headers[1]) /\ IsClearing(headers[2])
  /\ incomingId \notin DOMAIN sessions

\* ------------------------------------------------------------------ C26
\* C26: last state wins: when the handler of a session that is not destroyed
\* has returned and the request has written the store at all, however save(),
\* mutations and regenerate() were interleaved, the record under the final
\* session id holds the final session data after the end-of-request commit.
C26_LastStateWins ==
  (Responded /\ ~state.destroyed /\ SetsOf(calls) # <<>>)
    => /\ state.id \in DOMAIN sessions
       /\ sessions[state.id].data = state.data
       /\ sessions[state.id].expiresAt = state.expiresAt

\* save() stored one value, the handler then set another, and the record
\* holds the second
C26_Witness ==
  /\ Responded /\ opLog = <<"save", "mutate">> /\ ~state.destroyed
  /\ Len(SetsOf(calls)) = 2
  /\ The(SetsOf(calls)[1].rec).data # state.data
  /\ sessions[state.id].data = state.data

\* ------------------------------------------------------------------ C27
\* the handler operation of this step is of kind op
OpStep(op) == phase = "handler" /\ opLog' = Append(opLog, op)

\* C27: within a request revision and savedRevision never decrease and
\* savedRevision <= revision; every mutation (set, assign, replace, update,
\* delete), every regenerate() that returns and the first destroy() raise
\* revision, so that the session is dirty, savedRevision # revision, exactly
\* when revision > savedRevision.
C27_RevisionsMonotonic ==
  [][phase = "handler"
       => /\ state.savedRevision <= state.revision
          /\ state'.savedRevision <= state'.revision
          /\ state'.revision >= state.revision
          /\ state'.savedRevision >= state.savedRevision
          /\ (OpStep("mutate") \/ OpStep("regenerate")
                \/ (OpStep("destroy") /\ ~state.destroyed))
               => state'.revision = state.revision + 1
          /\ (state'.savedRevision # state'.revision)
               <=> (state'.revision > state'.savedRevision)]_vars

\* a mutation and then destroy(): both raised revision, and the commit that
\* destroy() ran brought savedRevision up to it
C27_Witness ==
  /\ phase = "handler" /\ opLog = <<"mutate", "destroy">>
  /\ state.revision = 2 /\ state.savedRevision = 2

\* ------------------------------------------------------------------ C28
\* C28: within a request an id that is non-null never becomes null again and
\* is replaced by regenerate() alone: the commit, save(), destroy() and the
\* mutations leave a non-null id as it is; every regenerate() that returns
\* gives a new id and sets isNew to true.
C28_IdOncePerEpoch ==
  [][phase = "handler"
       => /\ state.id # NullId => state'.id # NullId
          /\ (state.id # NullId /\ state'.id # state.id) => OpStep("regenerate")
          /\ OpStep("regenerate")
               => (state'.isNew /\ state'.id # state.id /\ state'.id = nextId')]_vars

\* a loaded session, not new, was saved and then regenerated: it is new
\* again, under an id other than the one it was loaded with
C28_Witness ==
  /\ phase = "handler" /\ ValidIncoming /\ opLog = <<"save", "regenerate">>
  /\ state.isNew /\ state.id # incomingId /\ state.id # NullId

\* ------------------------------------------------ requests that overlap
\* The server runs on one thread; a request gives way to another one at an
\* await.  The variables of the request hold the request that is running,
\* other holds the one that waits.  The store, the clock and the id
\* generator are shared.  The memory adapter completes each call within the
\* call, so that a handler operation and the commit are steps of their own.
Running == [phase |-> phase, incomingId |-> incomingId, stored |-> stored,
            state |-> state, headers |-> headers, calls |-> calls,
            opLog |-> opLog]

\* the running request awaits and the waiting one goes on
Yield ==
  /\ phase = "handler" \/ other.phase = "handler"
  /\ other' = Running
  /\ phase' = other.phase
  /\ incomingId' = other.incomingId
  /\ stored' = other.stored
  /\ state' = other.state
  /\ headers' = other.headers
  /\ calls' = other.calls
  /\ opLog' = other.opLog
  /\ UNCHANGED <<rolling, createOnRequest, now, sessions, nextId, opsDone,
                 destroyedIds, heap, pending>>
  /\ UNCHANGED storeVars

\* the session a request has left in the store before the two requests
\* that overlap arrive
EarlierSession == [data |-> InitialData, expiresAt |-> TTL]

\* the server between requests, its store holding that session under id 1
InitConcurrent ==
  /\ StoreIdle
  /\ rolling \in BOOLEAN
  /\ createOnRequest \in BOOLEAN
  /\ now = 0
  /\ sessions = MemSet(<<>>, 1, EarlierSession)
  /\ nextId = 1
  /\ phase = "idle"
  /\ incomingId = NullId
  /\ stored = {}
  /\ state = NoState
  /\ headers = <<>>
  /\ calls = <<>>
  /\ opLog = <<>>
  /\ opsDone = 0
  /\ destroyedIds = {}
  /\ other = NoRequest
  /\ heap = <<>>
  /\ pending = {}

\* a request arrives while the other one, if any, waits; the client sends no
\* cookie or one the server issued
Arrive(c, d) ==
  /\ phase = "idle"
  /\ Resolve(c, d)

\* the handlers set or delete a value, regenerate, save or destroy the session
NextConcurrent ==
  \/ \E c \in {NullId} \cup (1 .. nextId), d \in Elapsed : Arrive(c, d)
  \/ \E k \in Keys, v \in Vals : Set(k, v)
  \/ \E k \in Keys : Delete(k)
  \/ Regenerate
  \/ Destroy
  \/ Save
  \/ AfterHandle
  \/ Yield

SpecConcurrent == InitConcurrent /\ [][NextConcurrent]_vars


\* ------------------------------------------------------------------ C29
\* request r loaded a session and regenerated it, and the store holds live
\* records under both the id it was loaded with and the id it has now
TwoLiveRecords(r) ==
  /\ r.stored # {}
  /\ \E i \in 1 .. Len(r.opLog) : r.opLog[i] = "regenerate"
  /\ r.state.id # r.incomingId
  /\ MemGet(sessions, r.incomingId, now) # {}
  /\ MemGet(sessions, r.state.id, now) # {}

\* C29: regenerate() never leaves two live records for one session: once it
\* has deleted the record of the old id, the store never holds a live record
\* under the old id while it holds one under the new id, whatever requests
\* that loaded the old id before do.
C29_RegenerateNeverTwoLive ==
  /\ ~TwoLiveRecords(Running)
  /\ ~TwoLiveRecords(other)

\* ------------------------------------------------------------------ C30
\* the last adapter.set request r made
LastSet(r) == SetsOf(r.calls)[Len(SetsOf(r.calls))]

\* C30: last write wins: a record appears or changes in the store only by the
\* adapter.set of the commit that runs, and is then exactly the data and
\* expiry that commit wrote, whatever another request stored under the id
\* before; payloads are never merged.
C30_LastWriteWins ==
  [][\A id \in DOMAIN sessions' :
       (id \notin DOMAIN sessions \/ sessions'[id] # sessions[id])
         => /\ Wrote
            /\ id = state'.id
            /\ sessions'[id] = [data |-> state.data, expiresAt |-> now + TTL]
            /\ sessions'[id] = The(LastSet([calls |-> calls']).rec)]_vars

\* two requests loaded the session of id 1 before either wrote; one stored it
\* with another value, then the one now running stored it without the key:
\* the store holds what the second wrote
C30_Witness ==
  /\ phase = "responded" /\ other.phase = "responded"
  /\ incomingId = 1 /\ other.incomingId = 1
  /\ stored = {EarlierSession} /\ other.stored = {EarlierSession}
  /\ SetsOf(calls) # <<>> /\ SetsOf(other.calls) # <<>>
  /\ LastSet(Running).id = 1 /\ LastSet(other).id = 1
  /\ DOMAIN The(LastSet(other).rec).data = Keys
  /\ The(LastSet(other).rec).data # InitialData
  /\ The(LastSet(Running).rec).data = <<>>
  /\ sessions[1] = The(LastSet(Running).rec)

\* --------------------------------------- session data as objects in memory
\* The requests and the memory adapter hold session data by reference: heap
\* maps an object to what it holds now, and state.data, stored and the
\* records of the adapter's Map name objects.  Two requests overlap as above;
\* the store holds one session, no record expires meanwhile.

\* mutation: the adapter hands out and keeps the object it is given
cloneShares(h, r) == [heap |-> h, ref |-> r]

\* structuredClone: a new object with the same content
clone(h, r) == [heap |-> Append(h, h[r]), ref |-> Len(h) + 1]

\* an object literal: initialData(), the argument of replace()
alloc(h, v) == [heap |-> Append(h, v), ref |-> Len(h) + 1]

InitHeap ==
  /\ StoreIdle
  /\ rolling \in BOOLEAN
  /\ createOnRequest \in BOOLEAN
  /\ now = 0
  /\ heap = <<InitialData>>
  /\ sessions = MemSet(<<>>, 1, [data |-> 1, expiresAt |-> TTL])
  /\ nextId = 1
  /\ phase = "idle"
  /\ incomingId = NullId
  /\ stored = {}
  /\ state = NoState
  /\ headers = <<>>
  /\ calls = <<>>
  /\ opLog = <<>>
  /\ opsDone = 0
  /\ destroyedIds = {}
  /\ other = NoRequest
  /\ pending = {}

\* .resolve with cookie c: adapter.get returns a clone of the record
HeapResolve(c) ==
  /\ phase = "idle"
  /\ LET got == MemGet(sessions, c, now)
         o == IF got # {} THEN clone(heap, The(got).data)
              ELSE alloc(heap, InitialData)
         id == IF got # {} THEN c
               ELSE IF createOnRequest THEN nextId + 1 ELSE NullId
     IN /\ (got = {} /\ createOnRequest) => nextId + 1 <= MaxIds
        /\ heap' = o.heap
        /\ incomingId' = c
        /\ stored' = IF got # {} THEN {[The(got) EXCEPT !.data = o.ref]} ELSE {}
        /\ calls' = IF Truthy(c) THEN <<Call("get", c, "resolve", stored', now)>>
                    ELSE <<>>
        /\ headers' = IF got = {} /\ Truthy(c)
                      THEN appendSetCookie(<<>>, serializeExpiredCookie(now))
                      ELSE <<>>
        /\ nextId' = IF got = {} /\ createOnRequest THEN nextId + 1 ELSE nextId
        /\ state' = [id |-> id,
                     data |-> o.ref,
                     expiresAt |-> IF got # {} THEN The(got).expiresAt ELSE now + TTL,
                     isNew |-> (got = {}),
                     destroyed |-> FALSE,
                     revision |-> 0,
                     savedRevision |-> 0,
                     committed |-> FALSE]
  /\ phase' = "handler"
  /\ opLog' = <<>>
  /\ UNCHANGED <<rolling, createOnRequest, now, sessions, opsDone, destroyedIds,
                 other, pending>>
  /\ UNCHANGED storeVars

\* a mutator leaves the heap as h and the session pointing at object r
HeapHandle(h, r) ==
  /\ phase = "handler"
  /\ opsDone < MaxOps
  /\ opsDone' = opsDone + 1
  /\ heap' = h
  /\ state' = markDirty([state EXCEPT !.data = r])
  /\ opLog' = Append(opLog, "mutate")
  /\ UNCHANGED <<rolling, createOnRequest, now, sessions, nextId, phase,
                 incomingId, stored, headers, calls, destroyedIds, other,
                 pending>>
  /\ UNCHANGED storeVars

\* state.data[key] = value
HeapSet(key, value) ==
  HeapHandle([heap EXCEPT ![state.data] =
                [k \in (DOMAIN @) \cup {key} |-> IF k = key THEN value ELSE @[k]]],
             state.data)

\* Object.assign(state.data, patch)
HeapAssign(patch) ==
  HeapHandle([heap EXCEPT ![state.data] =
                [k \in (DOMAIN @) \cup (DOMAIN patch) |->
                   IF k \in DOMAIN patch THEN patch[k] ELSE @[k]]],
             state.data)

\* delete state.data[key]
HeapDelete(key) ==
  HeapHandle([heap EXCEPT ![state.data] = [k \in (DOMAIN @) \ {key} |-> @[k]]],
             state.data)

\* state.data = next
HeapReplace(next) ==
  HeapHandle(alloc(heap, next).heap, alloc(heap, next).ref)

\* state.data = await updater(state.data): the updater returns a new object,
\* or changes the one it was given and returns that
HeapUpdate(updater, inPlace) ==
  /\ phase = "handler"
  /\ ApplyUpdater(updater, heap[state.data]) \in DataSpace
  /\ IF inPlace
     THEN HeapHandle([heap EXCEPT ![state.data] = ApplyUpdater(updater, @)],
                     state.data)
     ELSE HeapHandle(alloc(heap, ApplyUpdater(updater, heap[state.data])).heap,
                     alloc(heap, ApplyUpdater(updater, heap[state.data])).ref)

\* .onAfterHandle: persist('auto'); adapter.set keeps a clone of toStore
HeapCommit ==
  /\ phase = "handler"
  /\ IF state.committed \/ ~shouldWrite("auto", state)
     THEN /\ state' = [state EXCEPT !.committed = TRUE]
          /\ UNCHANGED <<heap, sessions, calls, headers, nextId>>
     ELSE LET w1 == ensureId(World)
              id == w1.state.id
              expiresAt == now + TTL
              o == clone(heap, state.data)
              kept == [data |-> o.ref, expiresAt |-> expiresAt]
          IN /\ w1.nextId <= MaxIds
             /\ heap' = o.heap
             /\ sessions' = MemSet(sessions, id, kept)
             /\ calls' = Append(calls, Call("set", id, "persist", {kept}, now))
             /\ headers' = appendSetCookie(headers,
                             serializeSessionCookie(id, expiresAt, now))
             /\ nextId' = w1.nextId
             /\ state' = [w1.state EXCEPT !.expiresAt = expiresAt,
                                          !.isNew = FALSE,
                                          !.savedRevision = w1.state.revision,
                                          !.committed = TRUE]
  /\ phase' = "responded"
  /\ UNCHANGED <<rolling, createOnRequest, now, incomingId, stored, opLog,
                 opsDone, destroyedIds, other, pending>>
  /\ UNCHANGED storeVars

NextHeap ==
  \/ \E c \in {NullId} \cup (1 .. nextId) : HeapResolve(c)
  \/ \E k \in Keys, v \in Vals : HeapSet(k, v)
  \/ \E patch \in DataSpace : HeapAssign(patch)
  \/ \E k \in Keys : HeapDelete(k)
  \/ \E next \in DataSpace : HeapReplace(next)
  \/ \E u \in Updaters, inPlace \in BOOLEAN : HeapUpdate(u, inPlace)
  \/ HeapCommit
  \/ Yield

SpecHeap == InitHeap /\ [][NextHeap]_vars

\* ------------------------------------------------------------------ C31
\* what the store holds, the objects read out
StoreContents ==
  [id \in DOMAIN sessions |->
     [data |-> heap[sessions[id].data], expiresAt |-> sessions[id].expiresAt]]

\* the running request makes a mutation in this step
MutationStep == opsDone' = opsDone + 1 /\ OpStep("mutate")

\* C31: a mutation (set, assign, replace, update, delete) of one request
\* changes that request's data, revision and committed flag and nothing
\* else: the store holds what it held, and the data of the other request is
\* what it was, also when both loaded the same id; the content of the store
\* changes only in a step that calls adapter.set or adapter.delete.
C31_StateIsRequestPrivate ==
  [][/\ MutationStep
          => /\ StoreContents' = StoreContents
             /\ sessions' = sessions
             /\ other' = other
             /\ other.phase # "idle"
                  => heap'[other.state.data] = heap[other.state.data]
             /\ state' = [state EXCEPT !.data = state'.data,
                                       !.revision = state.revision + 1,
                                       !.committed = FALSE]
             /\ calls' = calls /\ headers' = headers
     /\ StoreContents' # StoreContents
          => /\ Len(calls') = Len(calls) + 1
             /\ calls'[Len(calls')].op \in {"set", "delete"}]_vars

\* two requests loaded the session of id 1; the one running has set a value
\* in its data: the other one's data and the stored record are as loaded
C31_Witness ==
  /\ phase = "handler" /\ other.phase = "handler"
  /\ incomingId = 1 /\ other.incomingId = 1
  /\ stored # {} /\ other.stored # {}
  /\ opLog = <<"mutate">> /\ state.data = The(stored).data
  /\ heap[state.data] # InitialData
  /\ heap[other.state.data] = InitialData
  /\ StoreContents[1].data = InitialData

\* ---------------------------------------------- update() that is not awaited
\* update() returns a promise; a handler can return while the updater it
\* passed is still at work.  pending holds what the updater will resolve to.

\* the handler calls update(updater) and goes on without awaiting it: the
\* updater has been given state.data and nothing else has happened yet
UpdateStart(updater) ==
  /\ phase = "handler"
  /\ pending = {}
  /\ opsDone < MaxOps
  /\ ApplyUpdater(updater, state.data) \in DataSpace
  /\ opsDone' = opsDone + 1
  /\ pending' = {ApplyUpdater(updater, state.data)}
  /\ opLog' = Append(opLog, "update")
  /\ UNCHANGED <<rolling, createOnRequest, now, sessions, nextId, phase,
                 incomingId, stored, state, headers, calls, destroyedIds>>
  /\ UNCHANGED <<storeVars, other, heap>>

\* the updater resolves, while the handler runs or after the response:
\* state.data = its result, markDirty()
UpdateResolve ==
  /\ phase \in {"handler", "responded"}
  /\ pending # {}
  /\ state' = markDirty([state EXCEPT !.data = The(pending)])
  /\ pending' = {}
  /\ UNCHANGED <<rolling, createOnRequest, now, sessions, nextId, phase,
                 incomingId, stored, headers, calls, opLog, opsDone,
                 destroyedIds>>
  /\ UNCHANGED <<storeVars, other, heap>>

\* the next request is looked at once the updater has resolved
ResolveQuiet(c, d) ==
  /\ pending = {}
  /\ Resolve(c, d)

NextAsync ==
  \/ \E c \in CookieInputs(nextId), d \in Elapsed : ResolveQuiet(c, d)
  \/ \E u \in Updaters : UpdateStart(u)
  \/ UpdateResolve
  \/ \E k \in Keys, v \in Vals : Set(k, v)
  \/ Save
  \/ AfterHandle

SpecAsync == Init /\ [][NextAsync]_vars

\* ------------------------------------------------------------------ C32
\* C32: when the handler has returned and the end-of-request commit has
\* finished, no mutation the handler issued is left unpersisted:
\* savedRevision = revision and the record of the session holds the session
\* data, also for an update() whose updater resolved after the handler
\* returned.
C32_CommitSeesAllMutations ==
  (Responded /\ ~state.destroyed /\ pending = {}
     /\ (Did("mutate") \/ Did("update")))
    => /\ state.savedRevision = state.revision
       /\ state.id \in DOMAIN sessions
       /\ sessions[state.id].data = state.data

\* ------------------------------------------------- adapter calls that fail
\* adapter.set and adapter.delete can reject: the disk is full, the file is
\* not JSON, the connection is lost.  The memory adapter never does; this
\* specification lets the adapter call of a commit fail at will.

\* persist(mode) gets as far as an adapter call
callsAdapter(mode, s) ==
  /\ ~s.committed
  /\ IF s.destroyed THEN Truthy(s.id) ELSE shouldWrite(mode, s)

\* mutation: the cookie is appended before the adapter is called
persistThrowsAfterCookie(mode, w, t) ==
  IF w.state.destroyed
  THEN [w EXCEPT !.calls = Append(@, Call("deleteFailed", w.state.id, "persist", {}, t)),
                 !.headers = appendSetCookie(@, serializeExpiredCookie(t))]
  ELSE LET w1 == ensureId(w)
           expiresAt == t + TTL
           toStore == [data |-> w1.state.data, expiresAt |-> expiresAt]
       IN [w1 EXCEPT !.state.expiresAt = expiresAt,
                     !.calls = Append(@, Call("setFailed", w1.state.id, "persist",
                                              {toStore}, t)),
                     !.headers = appendSetCookie(@, serializeSessionCookie(
                                                      w1.state.id, expiresAt, t))]

\* persist(mode) up to the adapter call that rejects; what comes after the
\* await is not run
persistThrows(mode, w, t) ==
  IF w.state.destroyed
  THEN [w EXCEPT !.calls = Append(@, Call("deleteFailed", w.state.id, "persist", {}, t))]
  ELSE LET w1 == ensureId(w)
           expiresAt == t + TTL
           toStore == [data |-> w1.state.data, expiresAt |-> expiresAt]
       IN [w1 EXCEPT !.state.expiresAt = expiresAt,
                     !.calls = Append(@, Call("setFailed", w1.state.id, "persist",
                                              {toStore}, t))]

\* save() rejects; the handler catches the error and goes on
SaveFails ==
  /\ callsAdapter("manual", state)
  /\ Handle("saveFailed", persistThrows("manual", World, now))
  /\ UNCHANGED destroyedIds

\* destroy() rejects: destroyed is set and the commit is reopened before the
\* adapter is called
DestroyFails ==
  /\ ~state.destroyed
  /\ Truthy(state.id)
  /\ Handle("destroyFailed",
            persistThrows("manual",
              [World EXCEPT !.state = markDirty([state EXCEPT !.destroyed = TRUE])],
              now))
  /\ UNCHANGED destroyedIds

\* the end-of-request commit rejects: the request fails
CommitFails ==
  /\ phase = "handler"
  /\ callsAdapter("auto", state)
  /\ LET w == persistThrows("auto", World, now)
     IN /\ w.nextId <= MaxIds
        /\ state' = w.state
        /\ sessions' = w.sessions
        /\ headers' = w.headers
        /\ calls' = w.calls
        /\ nextId' = w.nextId
  /\ phase' = "failed"
  /\ UNCHANGED <<rolling, createOnRequest, now, incomingId, stored, opLog,
                 opsDone, destroyedIds>>
  /\ UNCHANGED <<storeVars, other, heap, pending>>

\* the clients replay issued cookies; the handlers set a value, save or destroy
NextFaulty ==
  \/ \E c \in {NullId} \cup (1 .. nextId), d \in Elapsed : Resolve(c, d)
  \/ \E k \in Keys, v \in Vals : Set(k, v)
  \/ Save
  \/ SaveFails
  \/ Destroy
  \/ DestroyFails
  \/ AfterHandle
  \/ CommitFails

SpecFaulty == Init /\ [][NextFaulty]_vars

\* ------------------------------------------------------------------ C33
\* the adapter call of a commit fails in this step
IsFailedCall(c) == c.op \in {"setFailed", "deleteFailed"}
FailedCommitStep ==
  /\ phase = "handler"
  /\ Len(calls') = Len(calls) + 1
  /\ IsFailedCall(calls'[Len(calls')])

\* C33: when adapter.set or adapter.delete fails in a commit (at the end of
\* the request, in save() or in destroy()), the error reaches the caller,
\* that commit emits no Set-Cookie header and leaves the store alone, the
\* session stays uncommitted with savedRevision and isNew as they were, and
\* the next commit of the request calls the adapter again.
C33_FailedCommitLeavesUncommitted ==
  [][FailedCommitStep
       => /\ headers' = headers
          /\ sessions' = sessions
          /\ ~state'.committed
          /\ state'.savedRevision = state.savedRevision
          /\ state'.isNew = state.isNew
          /\ state'.data = state.data
          /\ \/ phase' = "failed"
             \/ opLog'[Len(opLog')] \in {"saveFailed", "destroyFailed"}
          /\ callsAdapter("auto", state')]_vars

\* save() failed on a changed session, the handler went on, and the
\* end-of-request commit made the write with the one live cookie
C33_Witness ==
  /\ Responded /\ opLog = <<"mutate", "saveFailed">> /\ ValidIncoming
  /\ Len(calls) = 3 /\ calls[2].op = "setFailed" /\ calls[3].op = "set"
  /\ Len(headers) = 1 /\ IsLive(headers[1])
  /\ sessions[state.id].data = state.data

\* ---------------------------------- the file adapter's queue under failures
\* readStore or writeStore of task i rejects (the file cannot be read or
\* written): the task ends without writing and its caller gets the error
FileFails(i) ==
  /\ i \in 1 .. Len(opQueue)
  /\ \/ opQueue[i].pc = "loaded"
     \/ /\ opQueue[i].pc = "queued"
        /\ IF opQueue[i].after = 0 THEN TRUE
           ELSE settled(opQueue, opQueue[i].after)
  /\ opQueue' = [opQueue EXCEPT ![i].pc = "failed"]
  /\ UNCHANGED <<now, adapter, storage, last, written>>
  /\ UNCHANGED pluginVars

\* the callers work on one session
NextFileFair ==
  \/ \E op \in FileOps : FileInvoke(op, 1)
  \/ \E i \in 1 .. MaxCalls : FileRead(i)
  \/ \E i \in 1 .. MaxCalls : FileWrite(i)
  \/ \E i \in 1 .. MaxCalls : FileFails(i)

\* every file operation terminates: a task that can start does start, a
\* task that has read the file gets through its write, or fails
SpecFileFair ==
  /\ InitFileQueue
  /\ [][NextFileFair]_vars
  /\ \A i \in 1 .. MaxCalls : WF_vars(FileRead(i)) /\ WF_vars(FileWrite(i))

\* ------------------------------------------------------------------ C34
\* C34: on one file adapter the operations run in the order of their calls,
\* each after all earlier ones have ended; a failed operation rejects its
\* own caller only: every operation enqueued, behind a failed one too, in
\* the end runs and completes or fails by itself.
C34_QueueSurvivesFailure ==
  /\ [](\A i, j \in 1 .. Len(opQueue) :
          (i < j /\ opQueue[j].pc # "queued") => settled(opQueue, i))
  /\ \A i \in 1 .. MaxCalls :
       (Len(opQueue) >= i) ~> (Len(opQueue) >= i /\ settled(opQueue, i))

\* a delete failed; the set called while the delete was in flight has
\* completed and its record is in the file
C34_Witness ==
  /\ Len(opQueue) = 2
  /\ opQueue[1].op = "delete" /\ opQueue[1].pc = "failed"
  /\ opQueue[2].op = "set" /\ opQueue[2].pc = "done"
  /\ opQueue[2].pending = 1
  /\ DOMAIN storage.v = {1}


\* ------------------------------------- set, one awaited call after the other
\* While a set is suspended at an await, other callers of the same adapter run.
\* opQueue holds the set in flight here: its id, its record, what the last
\* finished set left under the id, and the clock when it began.

\* SET without a PX option leaves the key without a deadline
NoDeadline == (MaxTicks + 1) * Tick

\* the storage after the first awaited call of set
setFirst(a, st, id, rec, t) ==
  CASE a \in {"drizzle", "drizzleColumns"} -> MemDelete(st, id)
    [] a = "redis" ->
         IF rec.expiresAt - t <= 0 THEN MemDelete(st, id)
         ELSE MemSet(st, id, [payload |-> stringify(rec), px |-> NoDeadline])
    [] OTHER -> SetRecord(a, st, id, rec, t).st

\* set makes a second awaited call
setSuspends(a, rec, t) ==
  CASE a \in {"drizzle", "drizzleColumns"} -> TRUE
    [] a = "redis" -> rec.expiresAt - t > 0
    [] OTHER -> FALSE

\* the storage after the second awaited call of the set in flight f
setSecond(a, st, f, t) ==
  IF a = "redis"
  THEN IF f.id \in DOMAIN st
       THEN [st EXCEPT ![f.id].px = t + (f.rec.expiresAt - f.began)]
       ELSE st
  ELSE SetRecord(a, MemDelete(st, f.id), f.id, f.rec, t).st

InitUpsert ==
  /\ PluginIdle
  /\ now = 0
  /\ adapter \in Adapters
  /\ storage = EmptyStorage(adapter)
  /\ last = NoCall
  /\ written = <<>>
  /\ opQueue = <<>>

SetBegin(id, rec) ==
  /\ opQueue = <<>>
  /\ storage' = setFirst(adapter, storage, id, rec, now)
  /\ IF setSuspends(adapter, rec, now)
     THEN /\ opQueue' = <<[id |-> id, rec |-> rec, began |-> now,
                           old |-> IF id \in DOMAIN written
                                   THEN {written[id]} ELSE {}]>>
          /\ written' = written
     ELSE /\ opQueue' = <<>>
          /\ written' = IF rec.expiresAt > now THEN MemSet(written, id, rec)
                        ELSE MemDelete(written, id)
  /\ last' = NoCall
  /\ UNCHANGED <<now, adapter>>
  /\ UNCHANGED pluginVars

SetEnd ==
  /\ opQueue # <<>>
  /\ storage' = setSecond(adapter, storage, opQueue[1], now)
  /\ written' = MemSet(written, opQueue[1].id, opQueue[1].rec)
  /\ opQueue' = <<>>
  /\ last' = NoCall
  /\ UNCHANGED <<now, adapter>>
  /\ UNCHANGED pluginVars

\* one id is enough for a set and the gets that overlap it
NextUpsert ==
  \/ \E rec \in Records : SetBegin(1, rec)
  \/ SetEnd
  \/ AdapterGet(1)
  \/ AdvanceClock
  \/ RedisExpire(1)

SpecUpsert == InitUpsert /\ [][NextUpsert]_vars

\* a get of the id of the set in flight has returned since the set began, and
\* the record the set replaces and the one it writes were both live then
GetDuringSet ==
  /\ opQueue # <<>>
  /\ last.id = opQueue[1].id
  /\ opQueue[1].old # {}
  /\ \A r \in opQueue[1].old \cup {opQueue[1].rec} : r.expiresAt > last.at

\* C35: while set(id, r) replaces a live record, a get(id) made before the set
\* has returned gives the old record or the new one, never nothing and never
\* anything else.
C35_SetIsAtomicUpsert ==
  GetDuringSet =>
    /\ ~last.threw
    /\ last.out # {}
    /\ last.out \subseteq (opQueue[1].old \cup {opQueue[1].rec})


\* the commit, by hand or at the end of the request, evaluates a session that
\* is neither committed nor destroyed and returns without having written
SkipStep ==
  /\ SaveStep \/ CommitStep
  /\ ~state.committed /\ ~state.destroyed
  /\ ~Wrote

\* C36: between adapter calls a committed session has savedRevision equal to
\* revision; the commit that skips the write, which sets committed and leaves
\* savedRevision alone, runs only when savedRevision equals revision already.
C36_CommittedMeansSaved ==
  [][/\ state.committed => state.savedRevision = state.revision
     /\ state'.committed => state'.savedRevision = state'.revision
     /\ SkipStep => /\ state.savedRevision = state.revision
                    /\ state' = [state EXCEPT !.committed = TRUE]]_vars

\* rolling is off, the session was loaded and only read: the commit at the
\* end skipped the write and the session is committed at revision 0
C36_Witness ==
  /\ Responded /\ ~rolling /\ ValidIncoming /\ opLog = <<"read">>
  /\ SetsOf(calls) = <<>>
  /\ state.committed /\ state.revision = 0 /\ state.savedRevision = 0


\* the ids the session of this request has had: the one it came with, the one
\* it has now, the ones it was written under
IdsOfRequest ==
  {x \in {incomingId, state.id} : Truthy(x)}
    \cup {calls[i].id : i \in {j \in 1 .. Len(calls) : IsSet(calls[j])}}

\* the last adapter.set of this request
LastSetCall ==
  LET sets == SetsOf(calls)
  IN sets[Len(sets)]

\* C37: when the handler has returned and the commit has run, the last
\* Set-Cookie header agrees with the store: a live cookie carries the id and
\* the expiry of the last record this request wrote, which the store holds; a
\* clearing cookie means the store holds no record under any id the session
\* had in this request.  The clearing cookie for a stale incoming id is the
\* first header, and once destroy() has been called a live cookie set before
\* is followed by a clearing one.
C37_LastCookieAgreesWithStore ==
  /\ (Responded /\ headers # <<>>) =>
       IF IsLive(LastHeader)
       THEN /\ LastHeader.value \in DOMAIN sessions
            /\ LastHeader.expires = sessions[LastHeader.value].expiresAt
            /\ \E i \in 1 .. Len(calls) : IsSet(calls[i])
            /\ LastSetCall.id = LastHeader.value
            /\ {sessions[LastHeader.value]} = LastSetCall.rec
       ELSE /\ IsClearing(LastHeader)
            /\ \A x \in IdsOfRequest : x \notin DOMAIN sessions
  /\ (phase \in {"handler", "responded"} /\ StaleIncoming) =>
       /\ headers # <<>>
       /\ IsClearing(headers[1])
  /\ (phase \in {"handler", "responded"} /\ Did("destroy")
        /\ \E i \in 1 .. Len(headers) : IsLive(headers[i])) =>
       IsClearing(LastHeader)

\* the cookie was stale, save() wrote a new session and set its cookie, and
\* destroy() removed it again: clearing, live, clearing
C37_Witness ==
  /\ Responded /\ StaleIncoming /\ opLog = <<"save", "destroy">>
  /\ Len(headers) = 3
  /\ IsClearing(headers[1]) /\ IsLive(headers[2]) /\ IsClearing(headers[3])
  /\ headers[2].value \notin DOMAIN sessions


\* a request arrives and its session state is built
ResolveStep == phase # "handler" /\ phase' = "handler"

\* the step has called generateId, and the session has the id it returned
FreshId == nextId' = nextId + 1 /\ state'.id = nextId'

\* the Set-Cookie headers the step has added
NewHeaders == {headers'[i] : i \in (Len(headers) + 1) .. Len(headers')}

\* C38: the id of a session is the incoming one only when the store returned
\* a record for it, and otherwise one that generateId returned in this
\* request; adapter.set is called and a live cookie is emitted with the id of
\* the session and nothing else, so an incoming id that resolved to no record
\* is never written and never sent back.
C38_StaleIdNeverAdopted ==
  [][/\ ResolveStep =>
          IF stored' # {} THEN state'.id = incomingId' /\ nextId' = nextId
          ELSE IF createOnRequest THEN FreshId
          ELSE state'.id = NullId /\ nextId' = nextId
     /\ (phase = "handler" /\ state'.id # state.id) => FreshId
     /\ (phase = "handler" /\ Wrote) =>
          SetsOf(calls')[Len(SetsOf(calls'))].id = state'.id
     /\ phase = "handler" =>
          \A h \in NewHeaders : IsLive(h) => h.value = state'.id
     /\ (phase' \in {"handler", "responded"} /\ Truthy(incomingId') /\ stored' = {}) =>
          /\ state'.id # incomingId'
          /\ \A i \in 1 .. Len(calls') :
               calls'[i].op = "set" => calls'[i].id # incomingId'
          /\ \A i \in 1 .. Len(headers') :
               IsLive(headers'[i]) => headers'[i].value # incomingId']_vars

\* a lazy session, a cookie nobody issued, a mutation: the commit wrote the
\* session under a generated id and sent that id back
C38_Witness ==
  /\ Responded /\ ~createOnRequest /\ incomingId = ForgedId
  /\ opLog = <<"mutate">>
  /\ SetsOf(calls) # <<>> /\ LastSetCall.id = nextId
  /\ IsLive(LastHeader) /\ LastHeader.value = nextId
  /\ DOMAIN sessions = {nextId}
====
